---- MODULE Spec2Model ----
(***************************************************************************)
(* Bottlerocket SSM-parameter audit: the three scripts getkeyvalues.py,    *)
(* comparenew.py and processresult.py.  Python str values are TLA+ strings *)
(* handled character by character (Len, SubSeq, \o); a Python dict is a    *)
(* function whose DOMAIN is its key set; a Python list is a sequence.      *)
(***************************************************************************)
EXTENDS Integers, Sequences, FiniteSets, TLC

(***************************************************************************)
(* Python str primitives                                                   *)
(***************************************************************************)
Min(a, b) == IF a <= b THEN a ELSE b

Max(a, b) == IF a >= b THEN a ELSE b

\* s[i] for a 1-based index
Char(s, i) == SubSeq(s, i, i)

\* s[:n]
Prefix(s, n) == SubSeq(s, 1, Min(n, Len(s)))

\* s.startswith(p)
StartsWith(s, p) == Len(s) >= Len(p) /\ SubSeq(s, 1, Len(p)) = p

\* 1-based position of the first separator character at or after i, 0 if none
RECURSIVE FindChar(_, _, _)
FindChar(s, sep, i) ==
    IF i > Len(s) THEN 0
    ELSE IF Char(s, i) = sep THEN i
    ELSE FindChar(s, sep, i + 1)

\* s.split(sep) for a one-character separator
RECURSIVE split(_, _)
split(s, sep) ==
    LET at == FindChar(s, sep, 1)
    IN  IF at = 0 THEN <<s>>
        ELSE <<SubSeq(s, 1, at - 1)>> \o split(SubSeq(s, at + 1, Len(s)), sep)

\* sep.join(parts)
RECURSIVE join(_, _)
join(parts, sep) ==
    IF parts = <<>> THEN ""
    ELSE IF Len(parts) = 1 THEN parts[1]
    ELSE parts[1] \o sep \o join(Tail(parts), sep)

\* x in parts
Contains(parts, x) == \E i \in 1..Len(parts) : parts[i] = x

\* parts.index(x), as a 1-based position (x occurs in parts)
IndexOf(parts, x) == CHOOSE i \in 1..Len(parts) :
    parts[i] = x /\ \A j \in 1..(i - 1) : parts[j] # x

\* parts.insert(at, x) for a 1-based position at
InsertAt(parts, at, x) ==
    SubSeq(parts, 1, at - 1) \o <<x>> \o SubSeq(parts, at, Len(parts))

\* [p for p in parts if p != x]
RECURSIVE Without(_, _)
Without(parts, x) ==
    IF parts = <<>> THEN <<>>
    ELSE IF parts[1] = x THEN Without(Tail(parts), x)
    ELSE <<parts[1]>> \o Without(Tail(parts), x)

(***************************************************************************)
(* getkeyvalues.py: get_ssm_parameter_name                                 *)
(***************************************************************************)
\* What a call gives back: None, a str, or an exception that propagates
None == [kind |-> "None", val |-> ""]

Path(s) == [kind |-> "path", val |-> s]

IndexError == [kind |-> "IndexError", val |-> ""]

\* len(parts) < 7 returns None
MinParts == 7

\* version_parts[-1][:8]
ShaLen == 8

\* lines 124-126: parts with "aws" ensured at index 2
AwsParts(ami_name) ==
    LET parts == split(ami_name, "-")
    IN  IF parts[3] # "aws" THEN InsertAt(parts, 3, "aws") ELSE parts

\* lines 128-139: arch_index, which is also the 1-based position of the last
\* token of the variant slice
ArchIndex(parts) ==
    IF Contains(parts, "nvidia") THEN IndexOf(parts, "nvidia")
    ELSE IF Contains(parts, "fips") THEN IndexOf(parts, "fips")
    ELSE 5

\* lines 131, 135, 138: '-'.join(parts[2:arch_index])
Variant(parts) == join(SubSeq(parts, 3, ArchIndex(parts)), "-")

\* lines 141-144
Arch(parts) ==
    LET arch == parts[ArchIndex(parts) + 1]
    IN  IF arch = "aarch64" THEN "arm64" ELSE arch

\* line 147
VersionParts(parts) ==
    Without(SubSeq(parts, ArchIndex(parts) + 2, Len(parts)), "v1")

\* lines 148-158
Version(parts) ==
    LET version_parts == VersionParts(parts)
        version == IF Len(version_parts) >= 2
                   THEN version_parts[Len(version_parts) - 1]
                   ELSE "unknown"
    IN  IF StartsWith(version, "v") THEN SubSeq(version, 2, Len(version))
        ELSE version

\* lines 150, 154
CommitSha(parts) ==
    LET version_parts == VersionParts(parts)
    IN  IF version_parts # <<>>
        THEN Prefix(version_parts[Len(version_parts)], ShaLen)
        ELSE "unknown"

\* lines 160-167
VersionStringAlwaysQualified(parts, include_commit) ==
    IF include_commit THEN Version(parts) \o "-" \o CommitSha(parts)
    ELSE Version(parts)

VersionString(parts, include_commit) ==
    IF include_commit
    THEN IF Version(parts) # CommitSha(parts)
         THEN Version(parts) \o "-" \o CommitSha(parts)
         ELSE Version(parts)
    ELSE Version(parts)

\* lines 119-169
get_ssm_parameter_name(ami_name, include_commit) ==
    IF Len(split(ami_name, "-")) < MinParts THEN None
    ELSE LET parts == AwsParts(ami_name)
         IN  IF ArchIndex(parts) + 1 > Len(parts) THEN IndexError
             ELSE Path("aws/service/bottlerocket/" \o Variant(parts) \o "/"
                       \o Arch(parts) \o "/"
                       \o VersionString(parts, include_commit) \o "/image_id")

(***************************************************************************)
(* State of the three programs                                             *)
(***************************************************************************)
VARIABLES
    \* getkeyvalues.py process_ami_json
    ami_data,                \* the parsed *-amis.json: region -> [name, id]
    todo,                    \* regions of ami_data.items() not yet visited
    ami_info,                \* the record of the iteration that ran last
    ssm_param_name_full,     \* local of that iteration
    ssm_param_name_version,  \* local of that iteration
    simplified_ami_data,     \* region -> (parameter path -> AMI id)
    apc,                     \* "idle", "loop", "returned" or "IndexError"
    \* getkeyvalues.py merge_results
    all_results,             \* the per-tag results, in tag order
    mpos,                    \* 1-based position of the tag result visited next
    final_results,           \* region -> (parameter path -> AMI id)
    mpc,                     \* "idle", "loop" or "returned"
    \* comparenew.py main
    s3_results,              \* bottlerocket_ami_ssm_mapping.json as loaded
    regions_to_process,      \* regions the loop of line 119 has yet to visit
    ssm_cache,               \* the ssm_cache_{region}.json files: region -> parameters
    comparison,              \* [by_region, summary]
    comparison_file,         \* what main wrote to comparison_results.json
    cpc,                     \* "idle", "loop", "exit" or "written"
    \* processresult.py main
    input_file,              \* comparison_results.json
    comparison_results,      \* the object json.load returned
    returned,                \* what filter_versions returned
    output_file,             \* filtered_comparison_results.json
    fpc                      \* "idle", "start", "loaded", "filtered", "saved"

amiVars == <<ami_data, todo, ami_info, ssm_param_name_full,
             ssm_param_name_version, simplified_ami_data, apc>>

mergeVars == <<all_results, mpos, final_results, mpc>>

compareVars == <<s3_results, regions_to_process, ssm_cache, comparison,
                 comparison_file, cpc>>

filterVars == <<input_file, comparison_results, returned, output_file, fpc>>

vars == <<amiVars, mergeVars, compareVars, filterVars>>

(***************************************************************************)
(* Inputs of process_ami_json                                              *)
(***************************************************************************)
\* Longest AMI name, in '-' separated tokens
MaxTokens == 8

\* The name of the spec's end-to-end example, continued by filler tokens
BaseToken(i) ==
    IF i <= 7
    THEN <<"bottlerocket", "aws", "ecs", "1", "x86_64", "v1.14.3",
           "0a1b2c3d4e">>[i]
    ELSE "x"

\* Tokens that steer get_ssm_parameter_name
SteerTokens == {"aws", "nvidia", "fips", "aarch64", "v1", "1.14.3"}

\* Token sequences of n tokens: the base name with up to two tokens replaced
\* by a steering token ("=" keeps the base token)
TokenSeqs(n) ==
    { [k \in 1..n |-> IF k = i /\ t1 # "=" THEN t1
                      ELSE IF k = j /\ t2 # "=" THEN t2
                      ELSE BaseToken(k)] :
        i \in 1..n, j \in 1..n,
        t1 \in SteerTokens \cup {"="}, t2 \in SteerTokens \cup {"="} }

\* AMI names: '' (a record without a name) and names of 6..MaxTokens tokens
AmiNames ==
    {""} \cup UNION { {join(ts, "-") : ts \in TokenSeqs(n)} : n \in 6..MaxTokens }

RegionSeq == <<"us-east-1", "us-west-2">>

AmiId(region) == "ami-" \o region

Unset == [kind |-> "unset", val |-> ""]

NoInfo == [name |-> "", id |-> ""]

EmptyDict == [k \in {} |-> ""]

(***************************************************************************)
(* getkeyvalues.py: process_ami_json                                       *)
(***************************************************************************)
\* d[k] = v on a dict
DictSet(d, k, v) == [x \in DOMAIN d \cup {k} |-> IF x = k THEN v ELSE d[x]]

\* lines 186-190: the region's mapping after one record
AddPaths(mapping, full, version, id) ==
    LET m1 == IF full.kind = "path" THEN DictSet(mapping, full.val, id)
              ELSE mapping
    IN  IF version.kind = "path" THEN DictSet(m1, version.val, id) ELSE m1

\* A program that does not run in a specification keeps these values
IdleAmi ==
    /\ ami_data = EmptyDict
    /\ todo = <<>>
    /\ ami_info = NoInfo
    /\ ssm_param_name_full = Unset
    /\ ssm_param_name_version = Unset
    /\ simplified_ami_data = EmptyDict
    /\ apc = "idle"

IdleMerge ==
    /\ all_results = <<>>
    /\ mpos = 0
    /\ final_results = EmptyDict
    /\ mpc = "idle"

IdleCompare ==
    /\ s3_results = EmptyDict
    /\ regions_to_process = <<>>
    /\ ssm_cache = EmptyDict
    /\ comparison = EmptyDict
    /\ comparison_file = EmptyDict
    /\ cpc = "idle"

IdleFilter ==
    /\ input_file = EmptyDict
    /\ comparison_results = EmptyDict
    /\ returned = "unset"
    /\ output_file = EmptyDict
    /\ fpc = "idle"

InitAmi ==
    /\ \E n \in AmiNames, k \in 1..Len(RegionSeq) :
          ami_data = [r \in {RegionSeq[i] : i \in 1..k} |->
                         [name |-> n, id |-> AmiId(r)]]
    /\ todo = SubSeq(RegionSeq, 1, Cardinality(DOMAIN ami_data))
    /\ ami_info = NoInfo
    /\ ssm_param_name_full = Unset
    /\ ssm_param_name_version = Unset
    /\ simplified_ami_data = EmptyDict
    /\ apc = "loop"
    /\ IdleMerge /\ IdleCompare /\ IdleFilter

\* lines 178-190, one iteration that completes
ProcessRegion ==
    /\ apc = "loop"
    /\ todo # <<>>
    /\ LET region == Head(todo)
           info == ami_data[region]
           full == get_ssm_parameter_name(info.name, TRUE)
           version == get_ssm_parameter_name(info.name, FALSE)
       IN  /\ full.kind # "IndexError"
           /\ ami_info' = info
           /\ ssm_param_name_full' = full
           /\ ssm_param_name_version' = version
           /\ simplified_ami_data' =
                 DictSet(simplified_ami_data, region,
                         AddPaths(EmptyDict, full, version, info.id))
           /\ todo' = Tail(todo)
    /\ UNCHANGED <<ami_data, apc, mergeVars, compareVars, filterVars>>

\* line 183 raising: only ClientError is caught (line 193), so the
\* IndexError leaves process_ami_json and nothing is returned
ProcessRegionRaises ==
    /\ apc = "loop"
    /\ todo # <<>>
    /\ LET info == ami_data[Head(todo)]
           full == get_ssm_parameter_name(info.name, TRUE)
       IN  /\ full.kind = "IndexError"
           /\ ami_info' = info
           /\ ssm_param_name_full' = full
    /\ apc' = "IndexError"
    /\ UNCHANGED <<ami_data, todo, ssm_param_name_version, simplified_ami_data,
                   mergeVars, compareVars, filterVars>>

\* line 192
ReturnAmiData ==
    /\ apc = "loop"
    /\ todo = <<>>
    /\ apc' = "returned"
    /\ UNCHANGED <<ami_data, todo, ami_info, ssm_param_name_full,
                   ssm_param_name_version, simplified_ami_data,
                   mergeVars, compareVars, filterVars>>

NextAmi == ProcessRegion \/ ProcessRegionRaises \/ ReturnAmiData

SpecAmi == InitAmi /\ [][NextAmi]_vars

(***************************************************************************)
(* getkeyvalues.py: merge_results                                          *)
(***************************************************************************)
\* Longest list of per-tag results
MaxResults == 3

Regions == {RegionSeq[i] : i \in 1..Len(RegionSeq)}

PathA == "aws/service/bottlerocket/aws-ecs-1/x86_64/1.14.3/image_id"

PathB == "aws/service/bottlerocket/aws-ecs-1/x86_64/1.14.3-0a1b2c3d/image_id"

\* What process_tag gives for one region
RegionDatas ==
    { [k \in {PathA} |-> "ami-1"], [k \in {PathA, PathB} |-> "ami-2"] }

\* A per-tag result: None, or a dict region -> region data
NoResult == [kind |-> "None", val |-> EmptyDict]

TagResults ==
    {NoResult} \cup
    { [kind |-> "dict", val |-> d] :
        d \in UNION { [D -> RegionDatas] : D \in SUBSET Regions } }

\* `if tag_result:` (line 233): None and {} are falsy
Truthy(tag_result) == tag_result.kind = "dict" /\ DOMAIN tag_result.val # {}

\* a.update(b) keeping the values a already has
DictUpdateKeepsOld(a, b) ==
    [k \in DOMAIN a \cup DOMAIN b |-> IF k \in DOMAIN a THEN a[k] ELSE b[k]]

\* a.update(b) (lines 224, 237)
DictUpdate(a, b) ==
    [k \in DOMAIN a \cup DOMAIN b |-> IF k \in DOMAIN b THEN b[k] ELSE a[k]]

\* lines 221-224 and 234-237: merge one result into the per-region mappings
MergeInto(results, tag_result) ==
    [r \in DOMAIN results \cup DOMAIN tag_result |->
        IF r \in DOMAIN tag_result
        THEN DictUpdate(IF r \in DOMAIN results THEN results[r] ELSE EmptyDict,
                        tag_result[r])
        ELSE results[r]]

InitMerge ==
    /\ \E n \in 0..MaxResults : all_results \in [1..n -> TagResults]
    /\ mpos = 1
    /\ final_results = EmptyDict
    /\ mpc = "loop"
    /\ IdleAmi /\ IdleCompare /\ IdleFilter

\* lines 232-237, an iteration for a truthy tag result
MergeTagResult ==
    /\ mpc = "loop"
    /\ mpos <= Len(all_results)
    /\ Truthy(all_results[mpos])
    /\ final_results' = MergeInto(final_results, all_results[mpos].val)
    /\ mpos' = mpos + 1
    /\ UNCHANGED <<all_results, mpc, amiVars, compareVars, filterVars>>

\* lines 232-233, an iteration for None or {}
SkipTagResult ==
    /\ mpc = "loop"
    /\ mpos <= Len(all_results)
    /\ ~Truthy(all_results[mpos])
    /\ mpos' = mpos + 1
    /\ UNCHANGED <<all_results, final_results, mpc, amiVars, compareVars,
                   filterVars>>

\* line 239
ReturnMerged ==
    /\ mpc = "loop"
    /\ mpos > Len(all_results)
    /\ mpc' = "returned"
    /\ UNCHANGED <<all_results, mpos, final_results, amiVars, compareVars,
                   filterVars>>

NextMerge == MergeTagResult \/ SkipTagResult \/ ReturnMerged

SpecMerge == InitMerge /\ [][NextMerge]_vars

(***************************************************************************)
(* comparenew.py                                                           *)
(***************************************************************************)
\* Number of parameter paths the two inventories of comparenew draw from
MaxKeys == 2

\* A parameter path with the given version segment
ParamPath(version_string) ==
    "aws/service/bottlerocket/aws-ecs-1/x86_64/" \o version_string \o "/image_id"

KeySeq == <<ParamPath("1.14.3"), ParamPath("1.14.3-0a1b2c3d"),
            ParamPath("1.14.2"), ParamPath("1.14.10")>>

CompareKeys == {KeySeq[i] : i \in 1..Min(MaxKeys, Len(KeySeq))}

\* The S3-derived mapping of a region, and what SSM may hold for it
S3Datas == UNION { [D -> {"ami-1"}] : D \in SUBSET CompareKeys }

SsmDatas == UNION { [D -> {"ami-1", "ami-2"}] : D \in SUBSET CompareKeys }

\* The orders in which `for key in all_keys` (line 76) may visit a set
Orders(S) ==
    { o \in [1..Cardinality(S) -> S] :
        \A i, j \in 1..Cardinality(S) : i # j => o[i] # o[j] }

EmptyRegionComparison ==
    [matching |-> <<>>, mismatched |-> <<>>, only_in_s3 |-> <<>>,
     only_in_ssm |-> <<>>]

\* lines 77-89 for one key, with a mismatch also recorded as matching
CompareKeyBothLists(c, s3_data, ssm_data, key) ==
    IF key \in DOMAIN s3_data /\ key \in DOMAIN ssm_data
    THEN IF s3_data[key] = ssm_data[key]
         THEN [c EXCEPT !.matching = Append(@, key)]
         ELSE [c EXCEPT !.matching = Append(@, key),
                        !.mismatched = Append(@, [key |-> key,
                                                  s3_value |-> s3_data[key],
                                                  ssm_value |-> ssm_data[key]])]
    ELSE IF key \in DOMAIN s3_data
    THEN [c EXCEPT !.only_in_s3 = Append(@, key)]
    ELSE [c EXCEPT !.only_in_ssm = Append(@, key)]

\* lines 77-89 for one key
CompareKey(c, s3_data, ssm_data, key) ==
    IF key \in DOMAIN s3_data /\ key \in DOMAIN ssm_data
    THEN IF s3_data[key] = ssm_data[key]
         THEN [c EXCEPT !.matching = Append(@, key)]
         ELSE [c EXCEPT !.mismatched = Append(@, [key |-> key,
                                                  s3_value |-> s3_data[key],
                                                  ssm_value |-> ssm_data[key]])]
    ELSE IF key \in DOMAIN s3_data
    THEN [c EXCEPT !.only_in_s3 = Append(@, key)]
    ELSE [c EXCEPT !.only_in_ssm = Append(@, key)]

\* lines 76-89: the loop over all_keys in the order the set yields them
RECURSIVE CompareLoop(_, _, _, _)
CompareLoop(c, s3_data, ssm_data, order) ==
    IF order = <<>> THEN c
    ELSE CompareLoop(CompareKey(c, s3_data, ssm_data, Head(order)),
                     s3_data, ssm_data, Tail(order))

\* lines 65-91; order enumerates all_keys = keys(s3_data) | keys(ssm_data)
compare_region_results(s3_data, ssm_data, order) ==
    CompareLoop(EmptyRegionComparison, s3_data, ssm_data, order)

\* lines 109-117
EmptyComparison ==
    [by_region |-> EmptyDict,
     summary |-> [total_matching |-> 0, total_mismatched |-> 0,
                  total_only_in_s3 |-> 0, total_only_in_ssm |-> 0]]

\* lines 130-135
AddRegion(c, region, region_comparison) ==
    [by_region |-> DictSet(c.by_region, region, region_comparison),
     summary |->
        [total_matching |->
            c.summary.total_matching + Len(region_comparison.matching),
         total_mismatched |->
            c.summary.total_mismatched + Len(region_comparison.mismatched),
         total_only_in_s3 |->
            c.summary.total_only_in_s3 + Len(region_comparison.only_in_s3),
         total_only_in_ssm |->
            c.summary.total_only_in_ssm + Len(region_comparison.only_in_ssm)]]

(***************************************************************************)
(* JSON values, as json.dump writes and json.load reads them               *)
(***************************************************************************)
JDict(d) == [t |-> "dict", d |-> d]

JList(l) == [t |-> "list", l |-> l]

JStr(x) == [t |-> "str", s |-> x]

JInt(n) == [t |-> "int", n |-> n]

NoFile == [t |-> "absent"]

MismatchToJson(e) ==
    JDict([key |-> JStr(e.key), s3_value |-> JStr(e.s3_value),
           ssm_value |-> JStr(e.ssm_value)])

RegionToJson(rc) ==
    JDict([matching |-> JList([i \in DOMAIN rc.matching |-> JStr(rc.matching[i])]),
           mismatched |-> JList([i \in DOMAIN rc.mismatched |->
                                    MismatchToJson(rc.mismatched[i])]),
           only_in_s3 |-> JList([i \in DOMAIN rc.only_in_s3 |->
                                    JStr(rc.only_in_s3[i])]),
           only_in_ssm |-> JList([i \in DOMAIN rc.only_in_ssm |->
                                    JStr(rc.only_in_ssm[i])])])

\* lines 137-138: the document json.dump(comparison) leaves in the file
ComparisonToJson(c) ==
    JDict([by_region |-> JDict([r \in DOMAIN c.by_region |->
                                   RegionToJson(c.by_region[r])]),
           summary |-> JDict([total_matching |-> JInt(c.summary.total_matching),
                              total_mismatched |-> JInt(c.summary.total_mismatched),
                              total_only_in_s3 |-> JInt(c.summary.total_only_in_s3),
                              total_only_in_ssm |-> JInt(c.summary.total_only_in_ssm)])])

(***************************************************************************)
(* comparenew.py: main                                                     *)
(***************************************************************************)
\* --regions values: absent, or a list naming a region S3 has no data for
RegionArgs == {<<>>, <<"us-east-1", "eu-west-1">>, <<"us-west-2">>}

InitCompare ==
    /\ \E D \in SUBSET Regions : s3_results \in [D -> S3Datas]
    /\ \E args_regions \in RegionArgs :
          regions_to_process =
              IF args_regions # <<>> THEN args_regions
              ELSE SelectSeq(RegionSeq, LAMBDA r : r \in DOMAIN s3_results)
    /\ ssm_cache = EmptyDict
    /\ comparison = EmptyComparison
    /\ comparison_file = NoFile
    /\ cpc = "start"
    /\ IdleAmi /\ IdleMerge /\ IdleFilter

\* lines 101-103: load_s3_results gave {} (also on a missing or broken file)
ExitNoS3Results ==
    /\ cpc = "start"
    /\ DOMAIN s3_results = {}
    /\ cpc' = "exit"
    /\ UNCHANGED <<s3_results, regions_to_process, ssm_cache, comparison,
                   comparison_file, amiVars, mergeVars, filterVars>>

\* lines 105-117
StartCompare ==
    /\ cpc = "start"
    /\ DOMAIN s3_results # {}
    /\ cpc' = "loop"
    /\ UNCHANGED <<s3_results, regions_to_process, ssm_cache, comparison,
                   comparison_file, amiVars, mergeVars, filterVars>>

\* lines 120-122
SkipRegion ==
    /\ cpc = "loop"
    /\ regions_to_process # <<>>
    /\ Head(regions_to_process) \notin DOMAIN s3_results
    /\ regions_to_process' = Tail(regions_to_process)
    /\ UNCHANGED <<s3_results, ssm_cache, comparison, comparison_file, cpc,
                   amiVars, mergeVars, filterVars>>

\* lines 124-135; get_ssm_parameters_for_region (lines 19-56) gives what SSM
\* holds for the region and leaves it in the region's cache file
CompareRegion ==
    /\ cpc = "loop"
    /\ regions_to_process # <<>>
    /\ LET region == Head(regions_to_process)
       IN  /\ region \in DOMAIN s3_results
           /\ \E ssm_data \in SsmDatas :
                 /\ ssm_cache' = DictSet(ssm_cache, region, ssm_data)
                 /\ \E order \in Orders(DOMAIN s3_results[region]
                                           \cup DOMAIN ssm_data) :
                       comparison' =
                           AddRegion(comparison, region,
                                     compare_region_results(s3_results[region],
                                                            ssm_data, order))
    /\ regions_to_process' = Tail(regions_to_process)
    /\ UNCHANGED <<s3_results, comparison_file, cpc, amiVars, mergeVars,
                   filterVars>>

\* lines 137-138
WriteComparison ==
    /\ cpc = "loop"
    /\ regions_to_process = <<>>
    /\ comparison_file' = ComparisonToJson(comparison)
    /\ cpc' = "written"
    /\ UNCHANGED <<s3_results, regions_to_process, ssm_cache, comparison,
                   amiVars, mergeVars, filterVars>>

NextCompare ==
    ExitNoS3Results \/ StartCompare \/ SkipRegion \/ CompareRegion
        \/ WriteComparison

SpecCompare == InitCompare /\ [][NextCompare]_vars

(***************************************************************************)
(* processresult.py: parse_version and the packaging.version calls         *)
(***************************************************************************)
Digits == {"0", "1", "2", "3", "4", "5", "6", "7", "8", "9"}

DigitValue(c) ==
    CASE c = "0" -> 0 [] c = "1" -> 1 [] c = "2" -> 2 [] c = "3" -> 3
      [] c = "4" -> 4 [] c = "5" -> 5 [] c = "6" -> 6 [] c = "7" -> 7
      [] c = "8" -> 8 [] c = "9" -> 9

AllDigits(s) == s # "" /\ \A i \in 1..Len(s) : Char(s, i) \in Digits

\* int(s) for a string of decimal digits
RECURSIVE ToInt(_)
ToInt(s) ==
    IF s = "" THEN 0
    ELSE 10 * ToInt(SubSeq(s, 1, Len(s) - 1)) + DigitValue(Char(s, Len(s)))

InvalidVersion == [ok |-> FALSE, release |-> <<>>]

\* version.parse (lines 9, 15) on release numbers 'N(.N)*' with an optional
\* leading 'v': the release tuple; InvalidVersion is raised for the other
\* strings of the inputs below, none of which carries an epoch, pre-, post-,
\* dev- or local-version suffix
VersionParse(s) ==
    LET body == IF StartsWith(s, "v") THEN SubSeq(s, 2, Len(s)) ELSE s
        segs == split(body, ".")
    IN  IF \A i \in 1..Len(segs) : AllDigits(segs[i])
        THEN [ok |-> TRUE, release |-> [i \in 1..Len(segs) |-> ToInt(segs[i])]]
        ELSE InvalidVersion

\* The sign of a - b for release tuples, a missing segment counting as 0
RECURSIVE ReleaseCmp(_, _, _)
ReleaseCmp(a, b, i) ==
    IF i > Len(a) /\ i > Len(b) THEN 0
    ELSE LET x == IF i <= Len(a) THEN a[i] ELSE 0
             y == IF i <= Len(b) THEN b[i] ELSE 0
         IN  IF x < y THEN -1
             ELSE IF x > y THEN 1
             ELSE ReleaseCmp(a, b, i + 1)

\* parsed_ver > min_ver
VersionGT(parsed_ver, min_ver) ==
    ReleaseCmp(parsed_ver.release, min_ver.release, 1) > 0

\* parsed_ver >= min_ver (lines 19, 23)
VersionGE(parsed_ver, min_ver) ==
    ReleaseCmp(parsed_ver.release, min_ver.release, 1) >= 0

\* lines 4-12; a result that is not ok stands for None
parse_version(path) ==
    LET parts == split(path, "/")
    IN  IF Len(parts) >= 2
        THEN VersionParse(split(parts[Len(parts) - 1], "-")[1])
        ELSE InvalidVersion

(***************************************************************************)
(* processresult.py: filter_versions                                       *)
(***************************************************************************)
\* line 42
MinVersionString == "1.14.3"

\* lines 17-19
filter_list(items, min_ver) ==
    SelectSeq(items, LAMBDA item :
        /\ item.t = "str"
        /\ parse_version(item.s).ok
        /\ VersionGE(parse_version(item.s), min_ver))

\* lines 21-23; every item is a dict whose 'key' is a str
filter_dict(items, min_ver) ==
    SelectSeq(items, LAMBDA item :
        /\ parse_version(item.d["key"].s).ok
        /\ VersionGE(parse_version(item.d["key"].s), min_ver))

RECURSIVE filter_versions(_, _)
\* lines 27-33 filtering every list value, whatever its key
FilterValueAnyKey(key, value, min_version) ==
    IF value.t = "list"
    THEN JList(filter_list(value.l, VersionParse(min_version)))
    ELSE IF value.t = "dict" THEN filter_versions(value, min_version)
    ELSE value

\* lines 27-33: what data[key] holds after the loop body ran for key
FilterValue(key, value, min_version) ==
    IF value.t = "list"
    THEN IF key \in {"matching", "mismatched", "only_in_s3", "only_in_ssm"}
         THEN JList(filter_list(value.l, VersionParse(min_version)))
         ELSE IF key = "wrong_owner"
         THEN JList(filter_dict(value.l, VersionParse(min_version)))
         ELSE value
    ELSE IF value.t = "dict" THEN filter_versions(value, min_version)
    ELSE value

\* lines 14-37: the object data refers to, as the call leaves it
filter_versions(data, min_version) ==
    IF data.t = "dict"
    THEN JDict([key \in DOMAIN data.d |->
                   FilterValue(key, data.d[key], min_version)])
    ELSE IF data.t = "list"
    THEN JList([i \in DOMAIN data.l |->
                   IF data.l[i].t = "dict"
                   THEN filter_versions(data.l[i], min_version)
                   ELSE data.l[i]])
    ELSE data

(***************************************************************************)
(* Inputs of processresult.py                                              *)
(***************************************************************************)
\* Number of version segments the compared parameter paths draw from
MaxVersions == 4

VersionSeq == <<"1.14.2", "1.14.3", "1.14.10", "unknown", "1.15-0a1b2c3d",
                "0.9">>

FilterKeySeq ==
    [i \in 1..Min(MaxVersions, Len(VersionSeq)) |-> ParamPath(VersionSeq[i])]

FilterKeys == {FilterKeySeq[i] : i \in DOMAIN FilterKeySeq}

\* The keys of S in the order of FilterKeySeq, or in the opposite order
RECURSIVE Reverse(_)
Reverse(seq) ==
    IF seq = <<>> THEN <<>> ELSE Append(Reverse(Tail(seq)), Head(seq))

OrderOf(S, backwards) ==
    LET forward == SelectSeq(FilterKeySeq, LAMBDA k : k \in S)
    IN  IF backwards THEN Reverse(forward) ELSE forward

\* A second region with one mismatch above and one match below min_version
WestS3 == [k \in {ParamPath("1.14.10"), ParamPath("1.14.2")} |-> "ami-1"]

WestSsm ==
    [k \in {ParamPath("1.14.10"), ParamPath("1.14.2")} |->
        IF k = ParamPath("1.14.10") THEN "ami-2" ELSE "ami-1"]

\* comparison_results.json as comparenew.py writes it
WrittenComparisons ==
    { ComparisonToJson(
        LET east == AddRegion(EmptyComparison, "us-east-1",
                        compare_region_results(s3_data, ssm_data,
                            OrderOf(DOMAIN s3_data \cup DOMAIN ssm_data,
                                    backwards)))
        IN  IF both
            THEN AddRegion(east, "us-west-2",
                     compare_region_results(WestS3, WestSsm,
                         OrderOf(DOMAIN WestS3, backwards)))
            ELSE east) :
        s3_data \in UNION { [D -> {"ami-1"}] : D \in SUBSET FilterKeys },
        ssm_data \in UNION { [D -> {"ami-1", "ami-2"}] : D \in SUBSET FilterKeys },
        backwards \in BOOLEAN, both \in BOOLEAN }

OwnerEntry(version_string) ==
    JDict([key |-> JStr(ParamPath(version_string)), owner |-> JStr("self")])

\* Other JSON documents filter_versions walks: a wrong_owner list, list values
\* under other keys, items that are not str, strings without '/', a nested
\* dict, and a top-level list
OtherDocuments ==
    { JDict([wrong_owner |-> JList(<<OwnerEntry("1.14.2"), OwnerEntry("1.15"),
                                     OwnerEntry("latest"),
                                     OwnerEntry("1.14.3-0a1b2c3d")>>),
             regions |-> JList(<<JStr("us-east-1"), JStr(ParamPath("1.14.2"))>>),
             matching |-> JList(<<JStr(ParamPath("1.14.3-0a1b2c3d")),
                                  JInt(7), JStr("1.14.10"),
                                  JStr(ParamPath("1.15")),
                                  JStr(ParamPath("1.14.2")),
                                  JStr("2.0/image_id")>>),
             only_in_s3 |-> JStr(ParamPath("1.14.2")),
             nested |-> JDict([only_in_ssm |-> JList(<<JStr(ParamPath("")),
                                                      JStr(ParamPath("1.14.3.0")),
                                                      JStr(ParamPath("1.14"))>>),
                               count |-> JInt(3)])]),
      JList(<<JDict([matching |-> JList(<<JStr(ParamPath("1.14.2")),
                                          JStr(ParamPath("1.14.10"))>>)]),
              JStr(ParamPath("1.14.2")),
              JList(<<JDict([matching |-> JList(<<JStr(ParamPath("1.14.2"))>>)])>>)>>),
      JStr(ParamPath("1.14.2")) }

(***************************************************************************)
(* processresult.py: main                                                  *)
(***************************************************************************)
Init ==
    /\ input_file \in WrittenComparisons \cup OtherDocuments \cup {NoFile}
    /\ comparison_results = NoFile
    /\ returned = "unset"
    /\ output_file = NoFile
    /\ fpc = "start"
    /\ IdleAmi /\ IdleMerge /\ IdleCompare

\* lines 45-46
LoadComparison ==
    /\ fpc = "start"
    /\ input_file # NoFile
    /\ comparison_results' = input_file
    /\ fpc' = "loaded"
    /\ UNCHANGED <<input_file, returned, output_file, amiVars, mergeVars,
                   compareVars>>

\* line 45 without comparison_results.json
LoadFails ==
    /\ fpc = "start"
    /\ input_file = NoFile
    /\ fpc' = "FileNotFoundError"
    /\ UNCHANGED <<input_file, comparison_results, returned, output_file,
                   amiVars, mergeVars, compareVars>>

\* line 49 with filter_versions leaving its argument alone and returning the
\* filtered structure
FilterVersionsOnCopy ==
    /\ fpc = "loaded"
    /\ returned' = "filtered copy"
    /\ fpc' = "filtered"
    /\ UNCHANGED <<input_file, comparison_results, output_file, amiVars,
                   mergeVars, compareVars>>

\* line 49: filter_versions assigns into the object it was passed
\* (lines 29, 31) and returns None
FilterVersions ==
    /\ fpc = "loaded"
    /\ comparison_results' = filter_versions(comparison_results, MinVersionString)
    /\ returned' = "None"
    /\ fpc' = "filtered"
    /\ UNCHANGED <<input_file, output_file, amiVars, mergeVars, compareVars>>

\* lines 52-53
SaveFiltered ==
    /\ fpc = "filtered"
    /\ output_file' = comparison_results
    /\ fpc' = "saved"
    /\ UNCHANGED <<input_file, comparison_results, returned, amiVars,
                   mergeVars, compareVars>>

Next == LoadComparison \/ LoadFails \/ FilterVersions \/ SaveFiltered

Spec == Init /\ [][Next]_vars

(***************************************************************************)
(* Claims about get_ssm_parameter_name and process_ami_json (SpecAmi)      *)
(***************************************************************************)
NumTokens(name) == Len(split(name, "-"))

\* An iteration of process_ami_json has called get_ssm_parameter_name
Translated == ssm_param_name_full # Unset

\* The family boundary token (first nvidia, else first fips) is the last token
BoundaryIsLast(parts) ==
    \/ /\ Contains(parts, "nvidia")
       /\ IndexOf(parts, "nvidia") = Len(parts)
    \/ /\ ~Contains(parts, "nvidia")
       /\ Contains(parts, "fips")
       /\ IndexOf(parts, "fips") = Len(parts)

\* C3: get_ssm_parameter_name returns None exactly when the name has fewer
\* than 7 tokens and a path otherwise, for both values of include_commit, and
\* never raises.
ClaimC3 ==
    Translated =>
        LET kind == IF NumTokens(ami_info.name) < 7 THEN "None" ELSE "path"
        IN  /\ ssm_param_name_full.kind = kind
            /\ ssm_param_name_version.kind = kind

\* The architecture lookup is the only thing that makes C3 fail: a name of at
\* least 7 tokens whose boundary token is not the last one gets a path.
C3OnlyArchLookup ==
    Translated /\ apc # "IndexError" =>
        LET kind == IF NumTokens(ami_info.name) < 7 THEN "None" ELSE "path"
        IN  /\ ssm_param_name_full.kind = kind
            /\ ssm_param_name_version.kind = kind

\* The path 'aws/service/bottlerocket/{variant}/{arch}/{x}/image_id'
PathWith(parts, x) ==
    "aws/service/bottlerocket/" \o join(SubSeq(parts, 3, ArchIndex(parts)), "-")
        \o "/" \o Arch(parts) \o "/" \o x \o "/image_id"

WitnessC4Two ==
    /\ apc = "returned"
    /\ \E r \in DOMAIN simplified_ami_data :
          Cardinality(DOMAIN simplified_ami_data[r]) = 2

\* The relation C5 states between the results for the two flags
SameButVersion(name, full, version) ==
    \/ full.kind = "None" /\ version.kind = "None"
    \/ /\ full.kind = "path" /\ version.kind = "path"
       /\ LET a == split(full.val, "/")
              b == split(version.val, "/")
              parts == AwsParts(name)
          IN  /\ Len(a) = Len(b)
              /\ \A i \in 1..Len(a) : i # Len(a) - 1 => a[i] = b[i]
              /\ b[Len(b) - 1] = Version(parts)
              /\ a[Len(a) - 1] \in {Version(parts),
                                    Version(parts) \o "-" \o CommitSha(parts)}
              /\ Version(parts) = CommitSha(parts) => full = version

\* C5: for every name the results for include_commit True and False are both
\* None or both paths; two paths differ at most in the second-to-last
\* segment, version-commit against version, and are equal when version
\* equals the commit sha prefix.
ClaimC5 ==
    Translated =>
        SameButVersion(ami_info.name, ssm_param_name_full, ssm_param_name_version)

\* C5 holds of every name whose architecture lookup does not raise
C5OnlyArchLookup ==
    Translated /\ apc # "IndexError" =>
        SameButVersion(ami_info.name, ssm_param_name_full, ssm_param_name_version)

\* The family and architecture C8 states, read off the path that was returned
FamilyAndArch(name, full) ==
    LET parts == AwsParts(name)
        at == IF Contains(parts, "nvidia") THEN IndexOf(parts, "nvidia")
              ELSE IF Contains(parts, "fips") THEN IndexOf(parts, "fips")
              ELSE 0
    IN  /\ full.kind = "path"
        /\ LET segs == split(full.val, "/")
               family == IF at = 0 THEN SubSeq(parts, 3, 5)
                         ELSE SubSeq(parts, 3, at)
               arch_at == IF at = 0 THEN 6 ELSE at + 1
           IN  /\ arch_at <= Len(parts)
               /\ segs[4] = join(family, "-")
               /\ segs[5] = IF parts[arch_at] = "aarch64" THEN "arm64"
                            ELSE parts[arch_at]

\* C8: for every name with at least 7 tokens the family runs from token 2 to
\* the first nvidia (else the first fips, else is tokens[2:5]) and the
\* architecture is the token right after it (token 5 when neither occurs).
ClaimC8 ==
    Translated /\ NumTokens(ami_info.name) >= 7 =>
        FamilyAndArch(ami_info.name, ssm_param_name_full)

\* C8 holds of every name whose architecture lookup does not raise
C8OnlyArchLookup ==
    Translated /\ NumTokens(ami_info.name) >= 7 /\ apc # "IndexError" =>
        /\ FamilyAndArch(ami_info.name, ssm_param_name_full)
        /\ FamilyAndArch(ami_info.name, ssm_param_name_version)

(***************************************************************************)
(* Claims about merge_results (SpecMerge)                                  *)
(***************************************************************************)
\* Positions among the first n results that hold region r
HoldersOfRegion(r, n) ==
    { i \in 1..n : Truthy(all_results[i]) /\ r \in DOMAIN all_results[i].val }

\* Positions among the first n results that hold key k for region r
HoldersOfKey(r, k, n) ==
    { i \in HoldersOfRegion(r, n) : k \in DOMAIN all_results[i].val[r] }

Last(S) == CHOOSE i \in S : \A j \in S : j <= i

\* C9: after the first n results are merged, each region's mapping has the
\* union of that region's key sets as its keys and, for each key, the value of
\* the last result holding it; a region no result holds has no mapping, so a
\* write for one region changes no other region.
MergedUpTo(n) ==
    /\ DOMAIN final_results = { r \in Regions : HoldersOfRegion(r, n) # {} }
    /\ \A r \in DOMAIN final_results :
          /\ DOMAIN final_results[r] =
                UNION { DOMAIN all_results[i].val[r] : i \in HoldersOfRegion(r, n) }
          /\ \A k \in DOMAIN final_results[r] :
                final_results[r][k] =
                    all_results[Last(HoldersOfKey(r, k, n))].val[r][k]

TheoremC9 ==
    /\ mpc = "loop" => MergedUpTo(mpos - 1)
    /\ mpc = "returned" => MergedUpTo(Len(all_results))

\* merge_results returned after a later result overwrote a key of one region
\* with another value, while the other region was written by one result only
WitnessC9 ==
    /\ mpc = "returned"
    /\ \E r \in Regions, q \in Regions :
          /\ r # q
          /\ Cardinality(HoldersOfRegion(q, Len(all_results))) = 1
          /\ \E i \in HoldersOfKey(r, PathA, Len(all_results)) :
                /\ i < Last(HoldersOfKey(r, PathA, Len(all_results)))
                /\ all_results[i].val[r][PathA] # final_results[r][PathA]

(***************************************************************************)
(* Claims about compare_region_results (SpecCompare)                       *)
(***************************************************************************)
\* How many times x occurs in the list
Count(list, x) == Cardinality({ i \in DOMAIN list : list[i] = x })

\* The keys the mismatched entries name, in list order
MismatchKeys(rc) == [i \in DOMAIN rc.mismatched |-> rc.mismatched[i].key]

\* How many times key k occurs across the four lists of a region comparison
Occurrences(rc, k) ==
    Count(rc.matching, k) + Count(MismatchKeys(rc), k)
        + Count(rc.only_in_s3, k) + Count(rc.only_in_ssm, k)

\* The list in which C1 places key k
PlacedRight(rc, left, right, k) ==
    IF k \in DOMAIN left /\ k \in DOMAIN right
    THEN IF left[k] = right[k]
         THEN Count(rc.matching, k) = 1
         ELSE Count(rc.mismatched, [key |-> k, s3_value |-> left[k],
                                    ssm_value |-> right[k]]) = 1
    ELSE IF k \in DOMAIN left THEN Count(rc.only_in_s3, k) = 1
    ELSE Count(rc.only_in_ssm, k) = 1

\* C1: every key of keys(left) | keys(right) is in exactly one of the four
\* lists, the one its presence and values decide, and no list holds a key
\* outside the union.
TheoremC1 ==
    \A r \in DOMAIN comparison.by_region :
        LET rc == comparison.by_region[r]
            left == s3_results[r]
            right == ssm_cache[r]
        IN  /\ \A k \in DOMAIN left \cup DOMAIN right :
                  Occurrences(rc, k) = 1 /\ PlacedRight(rc, left, right, k)
            /\ \A k \in CompareKeys \ (DOMAIN left \cup DOMAIN right) :
                  Occurrences(rc, k) = 0
            /\ Len(rc.matching) + Len(rc.mismatched) + Len(rc.only_in_s3)
                   + Len(rc.only_in_ssm)
                   = Cardinality(DOMAIN left \cup DOMAIN right)

\* Two regions compared, their lists covering all four cases between them
WitnessC1 ==
    /\ cpc = "written"
    /\ \E r, q \in DOMAIN comparison.by_region :
          /\ comparison.by_region[r].matching # <<>>
          /\ comparison.by_region[r].mismatched # <<>>
          /\ comparison.by_region[q].only_in_s3 # <<>>
          /\ comparison.by_region[q].only_in_ssm # <<>>

(***************************************************************************)
(* Claims about filter_versions (Spec)                                     *)
(***************************************************************************)
Filtered == fpc \in {"filtered", "saved"}

\* The document is one comparenew.py wrote
IsComparison(doc) == doc.t = "dict" /\ "by_region" \in DOMAIN doc.d

\* The second-to-last '/'-segment of a path, cut before its first '-'
ExtractedVersion(path) ==
    LET segs == split(path, "/")
        seg == IF Len(segs) < 2 THEN "" ELSE segs[Len(segs) - 1]
        dash == FindChar(seg, "-", 1)
    IN  IF dash = 0 THEN seg ELSE SubSeq(seg, 1, dash - 1)

\* A dotted release number: digits separated by single dots
IsDottedRelease(s) ==
    /\ s # ""
    /\ \A i \in 1..Len(s) : Char(s, i) \in Digits \cup {"."}
    /\ Char(s, 1) # "." /\ Char(s, Len(s)) # "."
    /\ \A i \in 1..(Len(s) - 1) : ~(Char(s, i) = "." /\ Char(s, i + 1) = ".")

SegmentsOf(s) == [i \in 1..Len(split(s, ".")) |-> ToInt(split(s, ".")[i])]

\* a >= b, numerically segment by segment, a missing segment counting as 0
AtLeast(a, b) ==
    LET n == Max(Len(a), Len(b))
        A(i) == IF i <= Len(a) THEN a[i] ELSE 0
        B(i) == IF i <= Len(b) THEN b[i] ELSE 0
    IN  \/ \A i \in 1..n : A(i) = B(i)
        \/ \E p \in 1..n : A(p) > B(p) /\ \A i \in 1..(p - 1) : A(i) = B(i)

\* The path's version is parseable and >= 1.14.3
Accepts(path) ==
    /\ IsDottedRelease(ExtractedVersion(path))
    /\ AtLeast(SegmentsOf(ExtractedVersion(path)), <<1, 14, 3>>)

\* C2: the mismatched list of every region keeps exactly the entries whose
\* key has a parseable version >= minVersion.
ClaimC2 ==
    Filtered /\ IsComparison(input_file) =>
        \A r \in DOMAIN input_file.d["by_region"].d :
            comparison_results.d["by_region"].d[r].d["mismatched"].l =
                SelectSeq(input_file.d["by_region"].d[r].d["mismatched"].l,
                          LAMBDA e : Accepts(e.d["key"].s))

\* What the code does instead: every mismatched list is left empty
MismatchedEmptied ==
    Filtered /\ IsComparison(input_file) =>
        \A r \in DOMAIN input_file.d["by_region"].d :
            comparison_results.d["by_region"].d[r].d["mismatched"].l = <<>>

\* C6 on a pair (before, after) of filter_versions: in every mapping the walk
\* reaches, a list under matching, only_in_s3 or only_in_ssm holds exactly
\* the str items the filter accepts, in their order
RECURSIVE KeptExactly(_, _)
KeptExactly(before, after) ==
    IF before.t = "dict"
    THEN /\ after.t = "dict"
         /\ DOMAIN after.d = DOMAIN before.d
         /\ \A k \in DOMAIN before.d :
               LET x == before.d[k]
                   y == after.d[k]
               IN  IF x.t = "list"
                   THEN k \in {"matching", "only_in_s3", "only_in_ssm"} =>
                           /\ y.t = "list"
                           /\ y.l = SelectSeq(x.l, LAMBDA item :
                                        item.t = "str" /\ Accepts(item.s))
                   ELSE x.t = "dict" => KeptExactly(x, y)
    ELSE IF before.t = "list"
    THEN /\ after.t = "list"
         /\ Len(after.l) = Len(before.l)
         /\ \A i \in DOMAIN before.l :
               before.l[i].t = "dict" => KeptExactly(before.l[i], after.l[i])
    ELSE TRUE

\* The cases C6 names, on the lists of a written comparison: 1.14.3 and
\* 1.14.10 stay, 1.14.2 and unknown go
NamedCases(before, after) ==
    \A r \in DOMAIN before.d["by_region"].d :
        \A k \in {"matching", "only_in_s3", "only_in_ssm"} :
            LET x == before.d["by_region"].d[r].d[k].l
                y == after.d["by_region"].d[r].d[k].l
            IN  /\ \A v \in {"1.14.3", "1.14.10"} :
                      Count(y, JStr(ParamPath(v))) = Count(x, JStr(ParamPath(v)))
                /\ \A v \in {"1.14.2", "unknown"} :
                      Count(y, JStr(ParamPath(v))) = 0

ClaimC7 ==
    Filtered => comparison_results = input_file

\* C7 amended: filter_versions filters the structure it is passed in place
\* and returns None, so after the call that structure holds the filtered
\* lists; what keeps the unfiltered lists is the input file, and the output
\* file receives the structure that was loaded and filtered.
AmendedC7 ==
    /\ Filtered =>
          /\ returned = "None"
          /\ comparison_results = filter_versions(input_file, MinVersionString)
    /\ fpc = "saved" => output_file = comparison_results
    /\ fpc \in {"start", "loaded"} => output_file = NoFile /\ returned = "unset"
    /\ fpc = "loaded" => comparison_results = input_file

\* The loaded structure no longer holds what the input file holds
WitnessC7 ==
    /\ fpc = "saved"
    /\ comparison_results # input_file
    /\ output_file = comparison_results

\* a is b with some items removed
RECURSIVE IsSubseq(_, _)
IsSubseq(a, b) ==
    IF a = <<>> THEN TRUE
    ELSE IF b = <<>> THEN FALSE
    ELSE IF Head(a) = Head(b) THEN IsSubseq(Tail(a), Tail(b))
    ELSE IsSubseq(a, Tail(b))

\* C10 on a pair (before, after): only lists under the five keys differ, and
\* only by lost items
RECURSIVE OnlyShrunk(_, _)
OnlyShrunk(before, after) ==
    IF before.t = "dict"
    THEN /\ after.t = "dict"
         /\ DOMAIN after.d = DOMAIN before.d
         /\ \A k \in DOMAIN before.d :
               LET x == before.d[k]
                   y == after.d[k]
               IN  IF x.t = "list"
                   THEN IF k \in {"matching", "mismatched", "only_in_s3",
                                  "only_in_ssm", "wrong_owner"}
                        THEN y.t = "list" /\ IsSubseq(y.l, x.l)
                        ELSE y = x
                   ELSE IF x.t = "dict" THEN OnlyShrunk(x, y)
                   ELSE y = x
    ELSE IF before.t = "list"
    THEN /\ after.t = "list"
         /\ Len(after.l) = Len(before.l)
         /\ \A i \in DOMAIN before.l :
               IF before.l[i].t = "dict"
               THEN OnlyShrunk(before.l[i], after.l[i])
               ELSE after.l[i] = before.l[i]
    ELSE after = before

\* The sum of the lengths of the lists under key k over the regions
RECURSIVE TotalLen(_, _, _)
TotalLen(doc, k, regions) ==
    IF regions = {} THEN 0
    ELSE LET r == CHOOSE x \in regions : TRUE
         IN  Len(doc.d["by_region"].d[r].d[k].l)
                 + TotalLen(doc, k, regions \ {r})

\* C10: filter_versions changes only the lists under matching, mismatched,
\* only_in_s3, only_in_ssm and wrong_owner, only by removing items; every
\* other value stays, and the summary keeps the counts of the unfiltered
\* lists.
TheoremC10 ==
    Filtered =>
        /\ OnlyShrunk(input_file, comparison_results)
        /\ IsComparison(input_file) =>
              /\ comparison_results.d["summary"] = input_file.d["summary"]
              /\ \A k \in {"matching", "mismatched", "only_in_s3", "only_in_ssm"} :
                    comparison_results.d["summary"].d["total_" \o k].n =
                        TotalLen(input_file, k,
                                 DOMAIN input_file.d["by_region"].d)

\* A saved comparison whose summary counts more than its filtered lists hold
WitnessC10 ==
    /\ fpc = "saved"
    /\ IsComparison(output_file)
    /\ \A k \in {"matching", "mismatched", "only_in_s3", "only_in_ssm"} :
          output_file.d["summary"].d["total_" \o k].n >
              TotalLen(output_file, k, DOMAIN output_file.d["by_region"].d)

====
